---------------------------- MODULE Spec2Model ----------------------------
(***************************************************************************)
(* A model of pyhctsa's symbolic-dynamics and extreme-event operations     *)
(* (src/pyhctsa/Operations/Symbolic.py, ExtremeEvents.py).                 *)
(*                                                                         *)
(* Real numbers are modelled exactly: a time series is a sequence of small *)
(* integers, a probability is a pair <<count, denominator>>, and a         *)
(* threshold is kept multiplied by its common denominator.  Floating-point *)
(* rounding is not modelled.                                               *)
(***************************************************************************)
EXTENDS Integers, Sequences, FiniteSets, TLC

VARIABLES
    y,              \* the input time series of the call in progress
    par,            \* the call's configuration (a record)
    pc,             \* the position of the call in progress
    loc,            \* the call's local variables (a record)
    out,            \* what the call returned, or the error it raised
    npRandomState,  \* state of the process-wide generator np.random
    thr,            \* the Surprise calls of each thread
    firstResult     \* the result of the first completed Surprise call per input

vars == <<y, par, pc, loc, out, npRandomState, thr, firstResult>>
callVars == <<y, par, pc, loc, out>>
surVars == <<npRandomState, thr, firstResult>>

(***************************************************************************)
(* Bounds of the model.                                                    *)
(***************************************************************************)
MaxLen == 3         \* longest series given to CoarseGrain / TransitionMatrix
MaxVal == 1         \* series values are drawn from -1..MaxVal
MaxGroups == 3      \* largest numGroups

Vals == -1..MaxVal

\* all sequences over S of length lo..hi
SeqsOf(S, lo, hi) == UNION {[1..n -> S] : n \in lo..hi}

Series == SeqsOf(Vals, 1, MaxLen)

(***************************************************************************)
(* Generic helpers standing for numpy primitives.                          *)
(***************************************************************************)
RangeOf(s) == {s[i] : i \in 1..Len(s)}

Abs(x) == IF x < 0 THEN -x ELSE x

Min2(p, r) == IF p <= r THEN p ELSE r

Max2(p, r) == IF p >= r THEN p ELSE r

\* np.diff
Diff(s) == [i \in 1..(Len(s) - 1) |-> s[i + 1] - s[i]]

\* the values of s in ascending order (np.sort / partition)
Sorted(s) ==
    [j \in 1..Len(s) |->
        CHOOSE v \in RangeOf(s) :
            /\ Cardinality({i \in 1..Len(s) : s[i] < v}) < j
            /\ j <= Cardinality({i \in 1..Len(s) : s[i] <= v})]

RECURSIVE SumSeq(_)
SumSeq(s) == IF Len(s) = 0 THEN 0 ELSE s[1] + SumSeq(Tail(s))

\* Python slices s[:e] and s[b:] (0-based bounds, negative bounds count from the end)
PySliceTo(s, e) ==
    LET e1 == IF e < 0 THEN Max2(Len(s) + e, 0) ELSE Min2(e, Len(s))
    IN  SubSeq(s, 1, e1)

PySliceFrom(s, b) ==
    LET b1 == IF b < 0 THEN Max2(Len(s) + b, 0) ELSE Min2(b, Len(s))
    IN  SubSeq(s, b1 + 1, Len(s))

(***************************************************************************)
(* np.quantile(y, np.linspace(0, 1, k + 1), method='hazen').               *)
(* The virtual index of probability i/k is n*i/k - 0.5 (0-based); the      *)
(* quantile interpolates linearly between the two neighbouring order       *)
(* statistics and is clipped to the smallest / largest value.  HazenTh     *)
(* is the i-th cut point multiplied by 2k, which keeps it an integer.      *)
(***************************************************************************)
HazenTh(s, k, i) ==
    LET n  == Len(s)
        v  == 2 * n * i - k            \* virtual index times 2k
        j  == v \div (2 * k)           \* floor of the virtual index
        r  == v % (2 * k)              \* gamma times 2k
    IN  IF v < 0 THEN 2 * k * s[1]
        ELSE IF v >= 2 * k * (n - 1) THEN 2 * k * s[n]
        ELSE 2 * k * s[j + 1] + r * (s[j + 2] - s[j + 1])

\* Thresholds without the decrement of the lowest cut point
Thresholds_NoDecrement(yy, k) ==
    LET s == Sorted(yy)
    IN  [i \in 0..k |-> HazenTh(s, k, i)]

\* th after "th[0] -= 1", times 2k; i in 0..k
Thresholds(yy, k) ==
    LET s == Sorted(yy)
    IN  [i \in 0..k |-> IF i = 0 THEN HazenTh(s, k, 0) - 2 * k ELSE HazenTh(s, k, i)]

\* the group the loop "for i in range(numGroups): yth[(y > th[i]) & (y <= th[i+1])] = i + 1"
\* leaves on a sample x: the last matching i, or 0 when none matches
QuantileGroup(x, th, k) ==
    LET hit == {i \in 0..(k - 1) : 2 * k * x > th[i] /\ 2 * k * x <= th[i + 1]}
    IN  IF hit = {} THEN 0 ELSE (CHOOSE i \in hit : \A h \in hit : h <= i) + 1


(***************************************************************************)
(* CoarseGrain(y, howtocg, numGroups).  The result is a record: err is     *)
(* "none" and yth the symbol sequence when the call returns, otherwise err *)
(* names the exception and yth is empty.                                   *)
(***************************************************************************)
Methods == {"quantile", "updown", "embed2quadrants", "embed2octants"}

Raise(e) == [err |-> e, yth |-> <<>>]

\* the effective embedding lag: "if tau > N/25: tau = N // 25"
EmbedTau(N, tau) == IF 25 * tau > N THEN N \div 25 ELSE tau

\* quadrant label of the embedded point (m1, m2); the later assignment wins
Quadrant(m1, m2) ==
    IF m2 < 0 /\ m1 >= 0 THEN 4
    ELSE IF m2 < 0 /\ m1 < 0 THEN 3
    ELSE IF m2 >= 0 /\ m1 < 0 THEN 2
    ELSE IF m2 >= 0 /\ m1 >= 0 THEN 1
    ELSE 0

\* octant label of the embedded point (m1, m2); the later assignment wins
Octant(m1, m2) ==
    LET q == Quadrant(m1, m2)
    IN  IF q = 4 /\ m2 >= -m1 THEN 8
        ELSE IF q = 4 /\ m2 < -m1 THEN 7
        ELSE IF q = 3 /\ m2 < m1 THEN 6
        ELSE IF q = 3 /\ m2 >= m1 THEN 5
        ELSE IF q = 2 /\ m2 < -m1 THEN 4
        ELSE IF q = 2 /\ m2 >= -m1 THEN 3
        ELSE IF q = 1 /\ m2 >= m1 THEN 2
        ELSE IF q = 1 /\ m2 < m1 THEN 1
        ELSE 0

\* the quantile branch without the final test for unassigned elements
QuantileBranch_NoGuard(yy, numGroups) ==
    IF numGroups < 0 THEN Raise("Linspace")
    ELSE IF Len(yy) = 0 THEN Raise("EmptyQuantile")
    ELSE [err |-> "none",
          yth |-> [i \in 1..Len(yy) |->
                      IF numGroups = 0 THEN 0
                      ELSE QuantileGroup(yy[i], Thresholds(yy, numGroups), numGroups)]]

\* the quantile branch on the (possibly differenced) series yy
QuantileBranch(yy, numGroups) ==
    IF numGroups < 0 THEN Raise("Linspace")         \* np.linspace with a negative count
    ELSE IF Len(yy) = 0 THEN Raise("EmptyQuantile") \* np.quantile of an empty array
    ELSE IF numGroups = 0 THEN Raise("Unassigned")  \* no group: yth stays all zero
    ELSE LET th  == Thresholds(yy, numGroups)
             yth == [i \in 1..Len(yy) |-> QuantileGroup(yy[i], th, numGroups)]
         IN  IF \E i \in 1..Len(yth) : yth[i] = 0
             THEN Raise("Unassigned")
             ELSE [err |-> "none", yth |-> yth]

\* the embedding branches: m1 = y[:-tau], m2 = y[tau:], one label per point
EmbedBranch(yy, howtocg, numGroups) ==
    LET tau == EmbedTau(Len(yy), numGroups)
        m1  == PySliceTo(yy, -tau)
        m2  == PySliceFrom(yy, tau)
    IN  IF Len(m1) # Len(m2) /\ Len(m1) # 1 /\ Len(m2) # 1
        THEN Raise("Broadcast")                     \* np.logical_and on unequal shapes
        ELSE LET n   == IF Len(m1) = Len(m2) THEN Len(m1)
                        ELSE IF Len(m1) = 1 THEN Len(m2) ELSE Len(m1)
                 a1(i) == IF Len(m1) = 1 THEN m1[1] ELSE m1[i]
                 a2(i) == IF Len(m2) = 1 THEN m2[1] ELSE m2[i]
                 lab == [i \in 1..n |->
                            IF howtocg = "embed2quadrants"
                            THEN Quadrant(a1(i), a2(i))
                            ELSE Octant(a1(i), a2(i))]
             IN  IF n # Len(m1) THEN Raise("MaskShape")   \* mask longer than yth
                 ELSE IF \E i \in 1..n : lab[i] = 0 THEN Raise("Unassigned")
                 ELSE [err |-> "none", yth |-> lab]

CoarseGrain(yy, howtocg, numGroups) ==
    IF howtocg \notin Methods THEN Raise("UnknownMethod")
    ELSE IF howtocg = "updown" THEN QuantileBranch(Diff(yy), numGroups)
    ELSE IF howtocg = "quantile" THEN QuantileBranch(yy, numGroups)
    ELSE EmbedBranch(yy, howtocg, numGroups)

(***************************************************************************)
(* Idle values of the variables a specification does not use.              *)
(***************************************************************************)
NoSurprise == /\ npRandomState = 0
              /\ thr = <<>>
              /\ firstResult = <<>>

(***************************************************************************)
(* Specification SpecCG: one call of CoarseGrain on a bounded input.       *)
(***************************************************************************)
PatLen == 2         \* long series repeat a pattern of at most PatLen values

\* series long enough for a non-zero embedding lag (N // 25 >= 1)
LongSeries ==
    {[i \in 1..n |-> p[((i - 1) % Len(p)) + 1]] :
        n \in {25, 50}, p \in SeqsOf(Vals, 1, PatLen)}

InitCG ==
    /\ y \in Series \cup LongSeries
    /\ par \in [fn : {"CoarseGrain"}, howtocg : Methods \cup {"other"},
                numGroups : 0..MaxGroups]
    /\ pc = "call"
    /\ loc = [unused |-> TRUE]
    /\ out = [err |-> "none"]
    /\ NoSurprise

\* np.quantile of an empty array raises in some numpy builds and returns
\* not-a-number thresholds in others; with the latter the empty symbol
\* sequence is returned
CoarseGrainOutcomes(yy, howtocg, numGroups) ==
    LET res == CoarseGrain(yy, howtocg, numGroups)
    IN  IF res.err = "EmptyQuantile"
        THEN {res, [err |-> "none", yth |-> <<>>]}
        ELSE {res}

CoarseGrainCall ==
    /\ pc = "call"
    /\ par.fn = "CoarseGrain"
    /\ out' \in CoarseGrainOutcomes(y, par.howtocg, par.numGroups)
    /\ pc' = "done"
    /\ UNCHANGED <<y, par, loc, surVars>>

NextCG == CoarseGrainCall

SpecCG == InitCG /\ [][NextCG]_vars

(***************************************************************************)
(* C2.                                                                     *)
(***************************************************************************)
Distinct(s) == \A i, j \in 1..Len(s) : i # j => s[i] # s[j]

\* the quantile result is a sequence of length N over 1..k with every
\* symbol's count within 1 of N/k
Equiprobable(res, N, k) ==
    /\ res.err = "none"
    /\ Len(res.yth) = N
    /\ \A i \in 1..N : res.yth[i] \in 1..k
    /\ \A g \in 1..k :
          Abs(k * Cardinality({i \in 1..N : res.yth[i] = g}) - N) <= k

QuantileCallDone ==
    /\ pc = "done"
    /\ par.fn = "CoarseGrain"
    /\ par.howtocg = "quantile"
    /\ par.numGroups >= 2

\* C2 as stated: for every series, ties included, and every k >= 2 the
\* 'quantile' result has length N, symbols in 1..k and every symbol count
\* within +/-1 of N/k.
C2_AnySeriesEquiprobable ==
    QuantileCallDone => Equiprobable(out, Len(y), par.numGroups)

\* C2 amended: for every series of pairwise distinct values and every
\* k >= 2 the 'quantile' result has length N, symbols in 1..k and every
\* symbol count within +/-1 of N/k.
C2_DistinctSeriesEquiprobable ==
    (QuantileCallDone /\ Distinct(y)) =>
        Equiprobable(out, Len(y), par.numGroups)

\* a quantile call on three distinct values into three groups has returned
C2_Witness ==
    /\ QuantileCallDone
    /\ Distinct(y)
    /\ Len(y) = 3
    /\ par.numGroups = 3
    /\ out.err = "none"

(***************************************************************************)
(* TransitionMatrix(y, howtocg, numGroups, tau), one action per stage.     *)
(* loc.steps records the stages the call has entered.                      *)
(***************************************************************************)
MaxTau == 2         \* largest lag (supplied, or returned by FirstCrossing)

\* series of length n that a collaborator may return
SeriesOfLen(n) ==
    IF n <= MaxLen THEN [1..n -> Vals]
    ELSE {[i \in 1..n |-> p[((i - 1) % Len(p)) + 1]] : p \in SeqsOf(Vals, 1, PatLen)}

\* FirstCrossing(y, 'ac', 0, 'discrete'): an integer lag, or NaN (coded 0)
\* when the series is too short to determine one
FirstCrossing(yy) == 0..MaxTau

\* scipy.signal.resample(y, n): some series of length n
Resample(yy, n) == SeriesOfLen(n)

CeilDiv(p, r) == (p + r - 1) \div r

\* T[i, j] before normalisation: the number of positions whose symbol is j
\* and whose predecessor's symbol is i
TCount(yth, i, j) ==
    IF \A t \in 1..Len(yth) : yth[t] # i THEN 0
    ELSE Cardinality({t \in 2..Len(yth) : yth[t - 1] = i /\ yth[t] = j})

InitTM ==
    /\ y \in Series
    /\ par \in [fn : {"TransitionMatrix"}, howtocg : Methods,
                numGroups : 0..MaxGroups, tauAc : BOOLEAN, tau : 1..MaxTau]
    /\ par.tauAc => par.tau = 1        \* tau = 'ac' carries no number
    /\ pc = "check"
    /\ loc = [y |-> y, tau |-> par.tau, yth |-> <<>>, N |-> 0, steps |-> {}]
    /\ out = [err |-> "none"]
    /\ NoSurprise

\* TMCheckInputs without the numGroups test
TMCheckInputs_NoTest ==
    /\ pc = "check"
    /\ par.fn = "TransitionMatrix"
    /\ out' = out
    /\ pc' = "tau"
    /\ UNCHANGED <<y, par, loc, surVars>>

\* lines 578-580
TMCheckInputs ==
    /\ pc = "check"
    /\ par.fn = "TransitionMatrix"
    /\ IF par.numGroups < 2
       THEN /\ out' = [err |-> "TooFewGroups"]
            /\ pc' = "done"
       ELSE /\ out' = out
            /\ pc' = "tau"
    /\ UNCHANGED <<y, par, loc, surVars>>

\* lines 581-585
TMResolveTau ==
    /\ pc = "tau"
    /\ IF par.tauAc
       THEN \E t \in FirstCrossing(loc.y) :
               IF t = 0
               THEN /\ out' = [err |-> "TooShortForTau"]
                    /\ pc' = "done"
                    /\ loc' = [loc EXCEPT !.steps = @ \cup {"tau"}]
               ELSE /\ out' = out
                    /\ pc' = "resample"
                    /\ loc' = [loc EXCEPT !.tau = t, !.steps = @ \cup {"tau"}]
       ELSE /\ out' = out
            /\ pc' = "resample"
            /\ loc' = loc
    /\ UNCHANGED <<y, par, surVars>>

\* lines 586-590
TMResample ==
    /\ pc = "resample"
    /\ IF loc.tau > 1
       THEN \E r \in Resample(loc.y, CeilDiv(Len(loc.y), loc.tau)) :
               loc' = [loc EXCEPT !.y = r, !.N = Len(r),
                                  !.steps = @ \cup {"resample"}]
       ELSE loc' = [loc EXCEPT !.N = Len(loc.y)]
    /\ pc' = "cg"
    /\ UNCHANGED <<y, par, out, surVars>>

\* lines 592-595
TMCoarseGrain ==
    /\ pc = "cg"
    /\ LET res == CoarseGrain(loc.y, par.howtocg, par.numGroups)
       IN  /\ loc' = [loc EXCEPT !.yth = res.yth, !.steps = @ \cup {"cg"}]
           /\ IF res.err # "none"
              THEN /\ out' = [err |-> res.err]
                   /\ pc' = "done"
              ELSE /\ out' = out
                   /\ pc' = "build"
    /\ UNCHANGED <<y, par, surVars>>

\* lines 597-609: T is kept as its counts cnt and the normaliser den = N - 1
TMBuild ==
    /\ pc = "build"
    /\ out' = [err |-> "none",
               T |-> [cnt |-> [i \in 1..par.numGroups |->
                                 [j \in 1..par.numGroups |-> TCount(loc.yth, i, j)]],
                      den |-> loc.N - 1]]
    /\ pc' = "done"
    /\ UNCHANGED <<y, par, loc, surVars>>

NextTM ==
    \/ TMCheckInputs
    \/ TMResolveTau
    \/ TMResample
    \/ TMCoarseGrain
    \/ TMBuild

SpecTM == InitTM /\ [][NextTM]_vars

(***************************************************************************)
(* C1, C10.                                                                *)
(***************************************************************************)
MatSum(m) == SumSeq([i \in 1..Len(m) |-> SumSeq(m[i])])

TMReturned ==
    /\ par.fn = "TransitionMatrix"
    /\ pc = "done"
    /\ out.err = "none"

\* C1: for every series, every coarse-graining method and numGroups >= 2,
\* with tau = 1, the transition matrix has entries >= 0 that sum to 1: the
\* number of counted adjacent symbol pairs equals the normaliser N - 1.
C1_PairsEqualNormaliser ==
    (TMReturned /\ ~par.tauAc /\ par.tau = 1) =>
        /\ \A i, j \in 1..par.numGroups : out.T.cnt[i][j] >= 0
        /\ MatSum(out.T.cnt) = out.T.den

\* C10: whenever numGroups < 2 the call ends in the too-few-groups error,
\* and it does so before lag resolution, resampling or coarse-graining is
\* entered, whatever the series, the method and tau.
C10_TooFewGroupsRaisedFirst ==
    (par.fn = "TransitionMatrix" /\ par.numGroups < 2 /\ pc # "check") =>
        /\ pc = "done"
        /\ out.err = "TooFewGroups"
        /\ loc.steps = {}
        /\ loc.y = y

\* a call with numGroups = 1 and tau = 'ac' has raised the parameter error
C10_Witness ==
    /\ par.fn = "TransitionMatrix"
    /\ par.numGroups = 1
    /\ par.tauAc
    /\ pc = "done"
    /\ out.err = "TooFewGroups"

(***************************************************************************)
(* MotifTwo and MotifThree.  A word is a sequence of symbols; its          *)
(* probability is kept as <<count, number of start positions>>.            *)
(* MotifTwo's keys 'd' and 'u' are the symbols 0 and 1 ('du' is <<0, 1>>), *)
(* MotifThree's keys 'a', 'b', 'c' are the symbols 1, 2, 3.                *)
(***************************************************************************)
MaxLenMotif == 6    \* longest series given to MotifTwo / MotifThree

\* three values suffice for a series to use the whole ternary alphabet
MotifVals == {-1, 0, 1}

MotifSeries == SeqsOf(MotifVals, 1, MaxLenMotif)

Words(alphabet, L) == [1..L -> alphabet]

Front(w) == SubSeq(w, 1, Len(w) - 1)

\* binarize(y, binarizeHow) of Utilities.utils: 1 where the increment (diff),
\* or the value minus the mean / median, is positive, 0 elsewhere
binarize(yy, binarizeHow) ==
    IF binarizeHow = "diff"
    THEN [i \in 1..(Len(yy) - 1) |-> IF yy[i + 1] - yy[i] > 0 THEN 1 ELSE 0]
    ELSE IF binarizeHow = "mean"
    THEN [i \in 1..Len(yy) |-> IF Len(yy) * yy[i] > SumSeq(yy) THEN 1 ELSE 0]
    ELSE LET s  == Sorted(yy)
             lo == (Len(yy) + 1) \div 2
             hi == (Len(yy) \div 2) + 1
         IN  [i \in 1..Len(yy) |-> IF 2 * yy[i] > s[lo] + s[hi] THEN 1 ELSE 0]

\* MotifTwo's mask that keeps the previous length when a word is extended
RECURSIVE Mask2_NoTrim(_, _)
Mask2_NoTrim(yBin, w) ==
    IF Len(w) = 1 THEN [p \in 1..Len(yBin) |-> yBin[p] = w[1]]
    ELSE LET prev == Mask2_NoTrim(yBin, Front(w))
         IN  [p \in 1..Len(prev) |->
                 /\ p + Len(w) - 1 <= Len(yBin)
                 /\ prev[p]
                 /\ yBin[p + Len(w) - 1] = w[Len(w)]]

\* MotifTwo's boolean mask of the start positions of word w (r0, r01, r011, ...):
\* the mask of w's prefix without its last element, and-ed with the test of
\* the next symbol
RECURSIVE Mask2(_, _)
Mask2(yBin, w) ==
    IF Len(w) = 1 THEN [p \in 1..Len(yBin) |-> yBin[p] = w[1]]
    ELSE LET prev == Front(Mask2(yBin, Front(w)))
         IN  [p \in 1..Len(prev) |-> prev[p] /\ yBin[p + Len(w) - 1] = w[Len(w)]]

\* np.mean of a boolean mask
MeanOfMask(m) == <<Cardinality({p \in 1..Len(m) : m[p]}), Len(m)>>

MotifTwo(yy, binarizeHow) ==
    LET yBin == binarize(yy, binarizeHow)
    IN  IF Len(yBin) < 5 THEN [err |-> "none", nan |-> TRUE]
        ELSE [err |-> "none", nan |-> FALSE,
              prob |-> [L \in 1..4 |->
                           [w \in Words({0, 1}, L) |-> MeanOfMask(Mask2(yBin, w))]]]

SetMax(S) == CHOOSE m \in S : \A e \in S : e <= m

\* start positions that always lose the last position of the prefix
RECURSIVE Pos3_AlwaysTrim(_, _)
Pos3_AlwaysTrim(yt, w) ==
    IF Len(w) = 1 THEN {p \in 0..(Len(yt) - 1) : yt[p + 1] = w[1]}
    ELSE LET prev == Pos3_AlwaysTrim(yt, Front(w))
             r    == IF prev # {} THEN prev \ {SetMax(prev)} ELSE prev
         IN  {p \in r : p + Len(w) <= Len(yt) /\ yt[p + Len(w)] = w[Len(w)]}

\* MotifThree's start positions (0-based) of word w (r1, r2, r3, r4): the
\* positions of w's prefix, without the last one when no symbol follows it,
\* whose next symbol matches
RECURSIVE Pos3(_, _)
Pos3(yt, w) ==
    IF Len(w) = 1 THEN {p \in 0..(Len(yt) - 1) : yt[p + 1] = w[1]}
    ELSE LET prev == Pos3(yt, Front(w))
             last == Len(yt) - (Len(w) - 1)
             r    == IF prev # {} /\ SetMax(prev) = last THEN prev \ {last} ELSE prev
         IN  {p \in r : yt[p + Len(w)] = w[Len(w)]}

\* a divisor that is N for every word length
Den3_NoShrink(N, L) == N

\* the divisor of the length-L counts: N, N - 1, N - 2, N - 3
Den3(N, L) == N - (L - 1)

MotifThree(yy, cgHow) ==
    IF cgHow \notin {"quantile", "diffquant"} THEN [err |-> "UnknownMethod"]
    ELSE LET cg == IF cgHow = "quantile" THEN CoarseGrain(yy, "quantile", 3)
                   ELSE CoarseGrain(Diff(yy), "quantile", 3)
             yt == cg.yth
             N  == Len(yt)
         IN  IF cg.err # "none" THEN [err |-> cg.err]
             ELSE IF \E L \in 1..4 : Den3(N, L) = 0 THEN [err |-> "ZeroDivision"]
             ELSE [err |-> "none",
                   prob |-> [L \in 1..4 |->
                               [w \in Words({1, 2, 3}, L) |->
                                   <<Cardinality(Pos3(yt, w)), Den3(N, L)>>]]]

InitMotif ==
    /\ y \in MotifSeries
    /\ par \in [fn : {"MotifTwo"}, how : {"diff", "mean", "median"}]
             \cup [fn : {"MotifThree"}, how : {"quantile", "diffquant", "other"}]
    /\ pc = "call"
    /\ loc = [unused |-> TRUE]
    /\ out = [err |-> "none"]
    /\ NoSurprise

MotifTwoCall ==
    /\ pc = "call"
    /\ par.fn = "MotifTwo"
    /\ out' = MotifTwo(y, par.how)
    /\ pc' = "done"
    /\ UNCHANGED <<y, par, loc, surVars>>

MotifThreeCall ==
    /\ pc = "call"
    /\ par.fn = "MotifThree"
    /\ out' = MotifThree(y, par.how)
    /\ pc' = "done"
    /\ UNCHANGED <<y, par, loc, surVars>>

NextMotif ==
    \/ MotifTwoCall
    \/ MotifThreeCall

SpecMotif == InitMotif /\ [][NextMotif]_vars

(***************************************************************************)
(* C3, C4.                                                                 *)
(***************************************************************************)
RECURSIVE SumOver(_, _)
SumOver(f, S) ==
    IF S = {} THEN 0
    ELSE LET e == CHOOSE x \in S : TRUE IN f[e][1] + SumOver(f, S \ {e})

\* the probabilities of all words of length L are fractions of one positive
\* denominator and add up to 1
SumsToOne(res, alphabet, L) ==
    LET den   == res.prob[L][[i \in 1..L |-> CHOOSE c \in alphabet : TRUE]][2]
        total == SumOver(res.prob[L], Words(alphabet, L))
    IN  /\ den > 0
        /\ \A w \in Words(alphabet, L) : res.prob[L][w][2] = den
        /\ total = den

MotifTwoDone == pc = "done" /\ par.fn = "MotifTwo"

MotifTwoSums ==
    /\ out.err = "none"
    /\ ~out.nan
    /\ SumsToOne(out, {0, 1}, 1)
    /\ SumsToOne(out, {0, 1}, 2)

\* C3 as stated: for every series of length >= 5 and every binarization
\* method, u + d = 1 and dd + du + ud + uu = 1.
C3_SeriesOfFiveSums ==
    (MotifTwoDone /\ Len(y) >= 5) => MotifTwoSums

\* C3 amended: for every series whose binarized sequence has length >= 5
\* (series length >= 6 for 'diff', >= 5 for 'mean' and 'median'),
\* u + d = 1 and dd + du + ud + uu = 1.
C3_BinarizedOfFiveSums ==
    (MotifTwoDone /\ Len(y) >= (IF par.how = "diff" THEN 6 ELSE 5)) =>
        MotifTwoSums

\* a 'diff' call on a series of length 6 with both symbols present has returned
C3_Witness ==
    /\ MotifTwoDone
    /\ par.how = "diff"
    /\ Len(y) = 6
    /\ ~out.nan
    /\ out.prob[1][<<1>>][1] > 0
    /\ out.prob[1][<<0>>][1] > 0

MotifThreeDone == pc = "done" /\ par.fn = "MotifThree" /\ par.how # "other"

MotifThreeSums ==
    /\ out.err = "none"
    /\ \A L \in 1..4 : SumsToOne(out, {1, 2, 3}, L)

\* C4 as stated: for every series and both coarse-graining choices the 3,
\* 9, 27 and 81 word probabilities each sum to 1.
C4_AnySeriesSums ==
    MotifThreeDone => MotifThreeSums

\* C4 amended: for every series whose symbol sequence has length >= 4
\* (series length >= 4 for 'quantile', >= 5 for 'diffquant') the 3, 9, 27
\* and 81 word probabilities each sum to 1.
C4_FourSymbolsSums ==
    (MotifThreeDone /\ Len(y) >= (IF par.how = "diffquant" THEN 5 ELSE 4)) =>
        MotifThreeSums

\* a 'diffquant' call on a series of length 5 whose symbols are not all
\* equal has returned
C4_Witness ==
    /\ MotifThreeDone
    /\ par.how = "diffquant"
    /\ Len(y) = 5
    /\ out.err = "none"
    /\ \E w \in Words({1, 2, 3}, 2) : w[1] # w[2] /\ out.prob[2][w][1] > 0

(***************************************************************************)
(* MovingThreshold(y, a, b), one action per stage and per loop iteration.  *)
(* A real number is a pair <<numerator, denominator>> with a positive      *)
(* denominator; a and b are multiples of 1/Den, given by their numerators. *)
(***************************************************************************)
Den == 2            \* a = par.a / Den and b = par.b / Den

RLess(p, r) == p[1] * r[2] < r[1] * p[2]

REq(p, r) == p[1] * r[2] = r[1] * p[2]

RSub(p, r) == <<p[1] * r[2] - r[1] * p[2], p[2] * r[2]>>

RAdd(p, r) == <<p[1] * r[2] + r[1] * p[2], p[2] * r[2]>>

RECURSIVE RSum(_)
RSum(s) == IF Len(s) = 0 THEN <<0, 1>> ELSE RAdd(s[1], RSum(Tail(s)))

RECURSIVE Pow(_, _)
Pow(x, n) == IF n = 0 THEN 1 ELSE x * Pow(x, n - 1)

\* a barrier that is set to the observation itself
Kick_NoRaise(a, yi) == <<yi, 1>>

\* "q[i] = (1 + a) * y[i]"
Kick(a, yi) == <<(Den + a) * yi, Den>>

\* a barrier that loses b itself instead of the proportion b
Decay_Subtract(b, qprev) == RSub(qprev, <<b, Den>>)

\* "q[i] = (1 - b) * q[i-1]"
Decay(b, qprev) == <<(Den - b) * qprev[1], Den * qprev[2]>>

InitMT ==
    /\ y \in Series
    /\ par \in [fn : {"MovingThreshold"}, a : (-2 * Den)..Den, b : -1..(Den + 1)]
    /\ pc = "check"
    /\ loc = [q |-> <<>>, kicks |-> <<>>, i |-> 0]
    /\ out = [err |-> "none"]
    /\ NoSurprise

\* a test that also rejects the endpoints 0 and 1
MTCheck_Open ==
    /\ pc = "check"
    /\ par.fn = "MovingThreshold"
    /\ IF par.b <= 0 \/ par.b >= Den
       THEN /\ out' = [err |-> "BadDecay"]
            /\ pc' = "done"
       ELSE /\ out' = out
            /\ pc' = "init"
    /\ UNCHANGED <<y, par, loc, surVars>>

\* lines 33-36
MTCheck ==
    /\ pc = "check"
    /\ par.fn = "MovingThreshold"
    /\ IF par.b < 0 \/ par.b > Den
       THEN /\ out' = [err |-> "BadDecay"]
            /\ pc' = "done"
       ELSE /\ out' = out
            /\ pc' = "init"
    /\ UNCHANGED <<y, par, loc, surVars>>

\* lines 38-49: q and kicks start as zeros, q[0] = 1; loc.i is the loop index
MTInit ==
    /\ pc = "init"
    /\ loc' = [q     |-> [j \in 1..Len(y) |-> IF j = 1 THEN <<1, 1>> ELSE <<0, 1>>],
               kicks |-> [j \in 1..Len(y) |-> <<0, 1>>],
               i     |-> 1]
    /\ pc' = "loop"
    /\ UNCHANGED <<y, par, out, surVars>>

\* lines 51-56, one iteration (loc.i is the 0-based index i of the code)
MTStep ==
    /\ pc = "loop"
    /\ loc.i < Len(y)
    /\ LET i     == loc.i + 1
           yi    == Abs(y[i])
           qprev == loc.q[i - 1]
       IN  IF RLess(qprev, <<yi, 1>>)
           THEN loc' = [loc EXCEPT !.q[i] = Kick(par.a, yi),
                                   !.kicks[i] = RSub(Kick(par.a, yi), qprev),
                                   !.i = @ + 1]
           ELSE loc' = [loc EXCEPT !.q[i] = Decay(par.b, qprev),
                                   !.i = @ + 1]
    /\ UNCHANGED <<y, par, pc, out, surVars>>

\* lines 58-77: the statistics kept are meanq, meanqover, pkick and the kick
\* positions fkicks (0-based); a division 0/0 gives NaN
MTStats ==
    /\ pc = "loop"
    /\ loc.i >= Len(y)
    /\ LET N     == Len(y)
           sumk  == RSum(loc.kicks)
           absy  == [j \in 1..N |-> <<Abs(y[j]), 1>>]
       IN  out' = [err       |-> "none",
                   meanq     |-> <<RSum(loc.q)[1], RSum(loc.q)[2] * N>>,
                   meanqover |-> <<RSub(RSum(loc.q), RSum(absy))[1],
                                   RSub(RSum(loc.q), RSum(absy))[2] * N>>,
                   pkickNaN  |-> (N - 1 = 0 /\ sumk[1] = 0),
                   pkick     |-> IF N - 1 = 0 THEN sumk ELSE <<sumk[1], sumk[2] * (N - 1)>>,
                   fkicks    |-> {j - 1 : j \in {k \in 1..N : RLess(<<0, 1>>, loc.kicks[k])}}]
    /\ pc' = "done"
    /\ UNCHANGED <<y, par, loc, surVars>>

NextMT ==
    \/ MTCheck
    \/ MTInit
    \/ MTStep
    \/ MTStats

SpecMT == InitMT /\ [][NextMT]_vars

(***************************************************************************)
(* C8, C9.                                                                 *)
(***************************************************************************)
AllZero(s) == \A j \in 1..Len(s) : s[j] = 0

MTZeroDone ==
    /\ par.fn = "MovingThreshold"
    /\ pc = "done"
    /\ AllZero(y)
    /\ par.b >= 0
    /\ par.b <= Den

NoKickGeometric ==
    /\ out.err = "none"
    /\ out.fkicks = {}
    /\ \A j \in 1..Len(y) : loc.kicks[j][1] = 0
    /\ \A j \in 1..Len(y) :
          REq(loc.q[j], <<Pow(Den - par.b, j - 1), Pow(Den, j - 1)>>)

PkickZero == ~out.pkickNaN /\ out.pkick[1] = 0

\* C8 as stated: on an all-zero series of any length N >= 1, with any a and
\* any b in [0,1], no kick is recorded, pkick = 0 and q[i] = (1-b)^i.
C8_ZeroSeriesPkickZero ==
    MTZeroDone => (NoKickGeometric /\ PkickZero)

\* C8 amended: on an all-zero series of any length N >= 1, with any a and
\* any b in [0,1], no kick is recorded and q[i] = (1-b)^i; pkick = 0 when
\* N >= 2, and pkick is NaN (0/0) when N = 1.
C8_ZeroSeriesNoKick ==
    MTZeroDone =>
        /\ NoKickGeometric
        /\ Len(y) >= 2 => PkickZero
        /\ Len(y) = 1 => out.pkickNaN

\* an all-zero series of length 3 with b = 1/Den has been processed
C8_Witness ==
    /\ MTZeroDone
    /\ Len(y) = 3
    /\ par.b = 1
    /\ out.err = "none"

\* C9: the decay-proportion error is raised exactly when b < 0 or b > 1,
\* for every series and every a, and when it is raised no barrier value and
\* no statistic has been computed.
C9_BadDecayExactly ==
    (par.fn = "MovingThreshold" /\ pc # "check") =>
        /\ (out.err = "BadDecay") <=> (par.b < 0 \/ par.b > Den)
        /\ out.err = "BadDecay" =>
              (pc = "done" /\ loc.q = <<>> /\ loc.kicks = <<>>
                 /\ DOMAIN out = {"err"})

\* a call with b = (Den + 1) / Den > 1 has raised the error
C9_Witness ==
    /\ par.fn = "MovingThreshold"
    /\ pc = "done"
    /\ par.b = Den + 1
    /\ out.err = "BadDecay"

(***************************************************************************)
(* Surprise(y, whatPrior, memory, numGroups, coarseGrainMethod, numIters,  *)
(* randomSeed).                                                            *)
(*                                                                         *)
(* np.random is the process-wide generator.  Its state is a number below   *)
(* RngMod: seeding sets it from the seed, every draw advances it, and a    *)
(* permutation is the Fisher-Yates shuffle fed by successive draws.        *)
(***************************************************************************)
RngMod == 8         \* number of states of the generator
MaxSeed == 1        \* randomSeed is drawn from 0..MaxSeed
MaxIters == 2       \* numIters is drawn from 1..MaxIters

\* np.random.seed(randomSeed)
SeedState(seed) == (7 * seed + 1) % RngMod

\* one draw
NextState(g) == (5 * g + 3) % RngMod

RECURSIVE Shuffle(_, _, _)
Shuffle(x, i, g) ==
    IF i < 1 THEN [perm |-> x, state |-> g]
    ELSE LET g1 == NextState(g)
             j  == g1 % (i + 1)
         IN  Shuffle([x EXCEPT ![i + 1] = x[j + 1], ![j + 1] = x[i + 1]], i - 1, g1)

\* np.random.permutation(n) from generator state g: the permutation of
\* 0..n-1 and the state the generator is left in
Permutation(n, g) == Shuffle([k \in 1..n |-> k - 1], n - 1, g)

\* the elements of a set of integers in ascending order (np.where, np.sort)
Ascending(S) ==
    [j \in 1..Cardinality(S) |->
        CHOOSE v \in S : Cardinality({u \in S : u < v}) = j - 1]

\* int(np.round(n / d)): halves go to the even neighbour
RoundHalfEven(n, d) ==
    LET fl == n \div d
        r2 == 2 * (n % d)
    IN  IF r2 < d THEN fl
        ELSE IF r2 > d THEN fl + 1
        ELSE IF fl % 2 = 0 THEN fl ELSE fl + 1

\* lines 52-53: memory <<n, d>> is the number n/d
ResolveMemory(mem, N0) ==
    IF mem[1] > 0 /\ mem[1] < mem[2] THEN RoundHalfEven(mem[1] * N0, mem[2])
    ELSE mem[1]

\* the generator state that ignores randomSeed
StateAfterSeed_Ignore(p, g) == g

\* lines 60-61: the generator state the permutation is drawn from
StateAfterSeed(p, g) == IF p.seedGiven THEN SeedState(p.randomSeed) ELSE g

\* lines 62-64: the sampled indices, from the permutation perm of 0..n-1
SampledIndices(perm, memory, numIters) ==
    LET rs  == [k \in 1..Len(perm) |-> perm[k] + memory]
        cut == PySliceTo(rs, Min2(numIters, Len(rs) - 1))
    IN  Ascending(RangeOf(cut))

\* yth[t] for a Python index t (0-based, negative from the end)
PyIndex(yth, t) == IF t < 0 THEN yth[Len(yth) + t + 1] ELSE yth[t + 1]

\* lines 69-95: the probability estimate p at the sampled index t
Estimate(yth, whatPrior, memory, t) ==
    LET md(k) == yth[t - memory + k + 1]            \* memory_data[k], k in 0..memory-1
    IN  IF whatPrior = "dist"
        THEN <<Cardinality({k \in 0..(memory - 1) : md(k) = PyIndex(yth, t)}), memory>>
        ELSE IF whatPrior = "T1"
        THEN LET inmem == {k \in 0..(memory - 2) : md(k) = PyIndex(yth, t - 1)}
             IN  IF inmem = {} THEN <<0, 1>>
                 ELSE <<Cardinality({k \in inmem : md(k + 1) = PyIndex(yth, t)}),
                        Cardinality(inmem)>>
        ELSE LET inmem1 == Ascending({k \in 0..(memory - 3) :
                                         md(k + 1) = PyIndex(yth, t - 1)})
                 inmem2 == {j \in 0..(Len(inmem1) - 1) :
                               md(inmem1[j + 1]) = PyIndex(yth, t - 2)}
             IN  IF inmem2 = {} THEN <<0, 1>>
                 ELSE <<Cardinality({j \in inmem2 : md(j + 2) = PyIndex(yth, t)}),
                        Cardinality(inmem2)>>

\* lines 66-107: store before the logarithm, zeros replaced by ones
Store(yth, whatPrior, memory, numIters, rs) ==
    [i \in 1..numIters |->
        IF i <= Len(rs)
        THEN LET pr == Estimate(yth, whatPrior, memory, rs[i])
             IN  IF pr[1] = 0 THEN <<1, 1>> ELSE pr
        ELSE <<1, 1>>]

\* the whole call from generator state g: the result and the state the
\* generator is left in.  The reported statistics are functions of store.
Surprise(yy, p, g) ==
    LET memory == ResolveMemory(p.memory, Len(yy))
        cg     == CoarseGrain(yy, p.coarseGrainMethod, p.numGroups)
        N      == Len(cg.yth)
        g1     == StateAfterSeed(p, g)
        drawn  == Permutation(N - memory, g1)
        rs     == SampledIndices(drawn.perm, memory, p.numIters)
    IN  IF cg.err # "none" THEN [out |-> [err |-> cg.err], state |-> g]
        ELSE IF N - memory < 0 THEN [out |-> [err |-> "NegativePermutation"], state |-> g1]
        ELSE [out   |-> [err |-> "none", rs |-> rs,
                         store |-> Store(cg.yth, p.whatPrior, memory, p.numIters, rs)],
              state |-> drawn.state]

SurVals == {0, 1}

SurSeries == SeqsOf(SurVals, 4, 5)

SurPars ==
    {p \in [whatPrior : {"dist", "T1", "T2"},
            memory : {<<1, 1>>, <<1, 2>>},
            numGroups : {3},
            coarseGrainMethod : {"quantile"},
            numIters : 1..MaxIters,
            seedGiven : BOOLEAN,
            randomSeed : 0..MaxSeed] :
        ~p.seedGiven => p.randomSeed = 0}

(***************************************************************************)
(* Specification SpecSurSeq: calls of Surprise on one input, one after the *)
(* other, with other users of np.random drawing and reseeding in between.  *)
(***************************************************************************)
\* loc.calls counts the calls made, up to two; loc.touched tells that another
\* user has used np.random since the first call; loc.between is loc.touched
\* as the latest call found it
InitSurSeq ==
    /\ y \in SurSeries
    /\ \E p \in SurPars :
          par = [fn |-> "Surprise"] @@ p
    /\ pc = "idle"
    /\ loc = [calls |-> 0, touched |-> FALSE, between |-> FALSE]
    /\ out = [err |-> "none"]
    /\ npRandomState \in 0..(RngMod - 1)
    /\ thr = <<>>
    /\ firstResult = <<>>

SurpriseCall ==
    /\ par.fn = "Surprise"
    /\ LET res == Surprise(y, par, npRandomState)
       IN  /\ out' = res.out
           /\ npRandomState' = res.state
           /\ firstResult' = IF firstResult = <<>> THEN <<res.out>> ELSE firstResult
    /\ pc' = "returned"
    /\ loc' = [loc EXCEPT !.calls = Min2(@ + 1, 2), !.between = loc.touched]
    /\ UNCHANGED <<y, par, thr>>

\* another user of np.random draws a number
OtherDraw ==
    /\ par.fn = "Surprise"
    /\ npRandomState' = NextState(npRandomState)
    /\ loc' = [loc EXCEPT !.touched = (loc.calls > 0)]
    /\ UNCHANGED <<y, par, pc, out, thr, firstResult>>

\* another user of np.random reseeds it
OtherSeed ==
    /\ par.fn = "Surprise"
    /\ \E sd \in 0..MaxSeed : npRandomState' = SeedState(sd)
    /\ loc' = [loc EXCEPT !.touched = (loc.calls > 0)]
    /\ UNCHANGED <<y, par, pc, out, thr, firstResult>>

NextSurSeq ==
    \/ SurpriseCall
    \/ OtherDraw
    \/ OtherSeed

SpecSurSeq == InitSurSeq /\ [][NextSurSeq]_vars

(***************************************************************************)
(* Specification SpecSurConc: two threads call Surprise with the same      *)
(* configuration on different series; their stages interleave.             *)
(***************************************************************************)
Threads == {1, 2}

InitSurConc ==
    /\ y = <<>>
    /\ par = [fn |-> "SurpriseThreads"]
    /\ pc = "idle"
    /\ loc = [unused |-> TRUE]
    /\ out = [err |-> "none"]
    /\ npRandomState = 0
    /\ firstResult = <<>>
    /\ \E p \in SurPars, y1, y2 \in SurSeries :
          /\ p.seedGiven
          /\ p.memory = <<1, 1>>
          /\ Len(y1) = 4
          /\ y1 # y2
          /\ thr = [t \in Threads |->
                      [pc |-> "start", y |-> IF t = 1 THEN y1 ELSE y2, par |-> p,
                       memory |-> 0, yth |-> <<>>, rs |-> <<>>,
                       out |-> [err |-> "none"]]]

\* lines 52-57
SurStart(t) ==
    /\ thr[t].pc = "start"
    /\ LET cg == CoarseGrain(thr[t].y, thr[t].par.coarseGrainMethod, thr[t].par.numGroups)
       IN  thr' = [thr EXCEPT
                     ![t].memory = ResolveMemory(thr[t].par.memory, Len(thr[t].y)),
                     ![t].yth = cg.yth,
                     ![t].out = [err |-> cg.err],
                     ![t].pc = IF cg.err # "none" THEN "done" ELSE "seed"]
    /\ UNCHANGED <<callVars, npRandomState, firstResult>>

\* lines 60-61
SurSeed(t) ==
    /\ thr[t].pc = "seed"
    /\ npRandomState' = StateAfterSeed(thr[t].par, npRandomState)
    /\ thr' = [thr EXCEPT ![t].pc = "draw"]
    /\ UNCHANGED <<callVars, firstResult>>

\* lines 62-64
SurDraw(t) ==
    /\ thr[t].pc = "draw"
    /\ LET n == Len(thr[t].yth) - thr[t].memory
       IN  IF n < 0
           THEN /\ thr' = [thr EXCEPT ![t].out = [err |-> "NegativePermutation"],
                                      ![t].pc = "done"]
                /\ UNCHANGED npRandomState
           ELSE LET drawn == Permutation(n, npRandomState)
                IN  /\ npRandomState' = drawn.state
                    /\ thr' = [thr EXCEPT
                                 ![t].rs = SampledIndices(drawn.perm, thr[t].memory,
                                                          thr[t].par.numIters),
                                 ![t].pc = "compute"]
    /\ UNCHANGED <<callVars, firstResult>>

\* lines 66-135
SurFinish(t) ==
    /\ thr[t].pc = "compute"
    /\ thr' = [thr EXCEPT
                 ![t].out = [err |-> "none", rs |-> thr[t].rs,
                             store |-> Store(thr[t].yth, thr[t].par.whatPrior,
                                             thr[t].memory, thr[t].par.numIters,
                                             thr[t].rs)],
                 ![t].pc = "done"]
    /\ UNCHANGED <<callVars, npRandomState, firstResult>>

NextSurConc ==
    \E t \in Threads :
        \/ SurStart(t)
        \/ SurSeed(t)
        \/ SurDraw(t)
        \/ SurFinish(t)

SpecSurConc == InitSurConc /\ [][NextSurConc]_vars

(***************************************************************************)
(* C5, C6, C7.                                                             *)
(***************************************************************************)
\* C5: with an integer randomSeed, every call on the same series and
\* configuration returns the result of the first such call, whatever
\* draws and reseedings of np.random happened before or between them.
C5_SameSeedSameResult ==
    (par.fn = "Surprise" /\ pc = "returned" /\ par.seedGiven) =>
        out = firstResult[1]

\* a second call has returned indices after another user touched np.random
C5_Witness ==
    /\ par.fn = "Surprise"
    /\ pc = "returned"
    /\ par.seedGiven
    /\ loc.calls = 2
    /\ loc.between
    /\ out.err = "none"
    /\ Len(out.rs) >= 1

C7_GlobalStateUntouched ==
    [][SurpriseCall => npRandomState' = npRandomState]_vars

(***************************************************************************)
(* C11.                                                                    *)
(***************************************************************************)
MTReturned ==
    /\ par.fn = "MovingThreshold"
    /\ pc = "done"
    /\ out.err = "none"

\* the observation at 0-based index i - 1 is more extreme than the barrier
Extreme(i) == RLess(loc.q[i - 1], <<Abs(y[i]), 1>>)

\* the trajectory has length N, starts at 1 and follows the recurrence
FollowsRecurrence ==
    /\ Len(loc.q) = Len(y)
    /\ REq(loc.q[1], <<1, 1>>)
    /\ \A i \in 2..Len(y) :
          IF Extreme(i)
          THEN REq(loc.q[i], <<(Den + par.a) * Abs(y[i]), Den>>)
          ELSE REq(loc.q[i], <<(Den - par.b) * loc.q[i - 1][1], Den * loc.q[i - 1][2]>>)

NonNegative == \A i \in 1..Len(loc.q) : ~RLess(loc.q[i], <<0, 1>>)

\* C11 as stated: for every series of length N >= 1, every a and every b in
\* [0,1] the barrier trajectory has length N, starts at 1, follows the
\* kick / decay recurrence, and every element is non-negative.
C11_AnyRaiseNonNegative ==
    MTReturned => (FollowsRecurrence /\ NonNegative)

\* C11 amended: for every series of length N >= 1, every a and every b in
\* [0,1] the barrier trajectory has length N, starts at 1 and follows the
\* kick / decay recurrence; every element is non-negative when a >= -1.
C11_RaiseAtLeastMinusOne ==
    MTReturned =>
        /\ FollowsRecurrence
        /\ par.a >= -Den => NonNegative

\* a series of length 3 with a negative a >= -1 has been processed and its
\* last observation was an extreme event
C11_Witness ==
    /\ MTReturned
    /\ Len(y) = 3
    /\ par.a < 0
    /\ par.a >= -Den
    /\ Extreme(3)

(***************************************************************************)
(* C12.                                                                    *)
(***************************************************************************)
\* the groups i + 1 whose test "(y > th[i]) & (y <= th[i+1])" sample x passes
QuantileGroups(x, th, k) ==
    {i + 1 : i \in {h \in 0..(k - 1) : 2 * k * x > th[h] /\ 2 * k * x <= th[h + 1]}}

\* the quadrants whose mask q1r..q4r holds the point (m1, m2)
QuadrantRegions(m1, m2) ==
    {q \in 1..4 :
        \/ q = 1 /\ m2 >= 0 /\ m1 >= 0
        \/ q = 2 /\ m2 >= 0 /\ m1 < 0
        \/ q = 3 /\ m2 < 0 /\ m1 < 0
        \/ q = 4 /\ m2 < 0 /\ m1 >= 0}

\* the octants whose mask o1r..o8r holds the point (m1, m2)
OctantRegions(m1, m2) ==
    LET q == QuadrantRegions(m1, m2)
    IN  {o \in 1..8 :
            \/ o = 1 /\ 1 \in q /\ m2 < m1
            \/ o = 2 /\ 1 \in q /\ m2 >= m1
            \/ o = 3 /\ 2 \in q /\ m2 >= -m1
            \/ o = 4 /\ 2 \in q /\ m2 < -m1
            \/ o = 5 /\ 3 \in q /\ m2 >= m1
            \/ o = 6 /\ 3 \in q /\ m2 < m1
            \/ o = 7 /\ 4 \in q /\ m2 < -m1
            \/ o = 8 /\ 4 \in q /\ m2 >= -m1}

CGDone ==
    /\ par.fn = "CoarseGrain"
    /\ pc = "done"

\* the series the quantile thresholds are taken of
CGSeries == IF par.howtocg = "updown" THEN Diff(y) ELSE y

EmbM1 == PySliceTo(y, -EmbedTau(Len(y), par.numGroups))

EmbM2 == PySliceFrom(y, EmbedTau(Len(y), par.numGroups))

\* the number of samples, or embedded points, that are to be labelled
NumPoints ==
    IF par.howtocg \in {"quantile", "updown"} THEN Len(CGSeries)
    ELSE IF Len(EmbM1) = Len(EmbM2) THEN Len(EmbM1)
    ELSE 0

\* for each sample (or point), the groups whose membership condition it satisfies
GroupsOf ==
    IF par.howtocg \in {"quantile", "updown"}
    THEN LET yy == CGSeries
             th == Thresholds(yy, par.numGroups)
         IN  [i \in 1..NumPoints |-> QuantileGroups(yy[i], th, par.numGroups)]
    ELSE LET m1 == EmbM1
             m2 == EmbM2
         IN  [i \in 1..NumPoints |->
                 IF par.howtocg = "embed2quadrants"
                 THEN QuadrantRegions(m1[i], m2[i])
                 ELSE OctantRegions(m1[i], m2[i])]

\* C12: for every method and every input CoarseGrain either raises or
\* returns a sequence without an unassigned (0) element: no sample or
\* embedded point satisfies the condition of two groups, every returned
\* element is the one group its sample satisfies, and the call raises
\* whenever some sample satisfies the condition of no group.
C12_ReturnedFullyAssigned ==
    CGDone =>
        IF par.howtocg \notin Methods THEN out.err # "none"
        ELSE LET g == GroupsOf
             IN  /\ \A i \in 1..Len(g) : Cardinality(g[i]) <= 1
                 /\ out.err = "none" =>
                       /\ Len(out.yth) = Len(g)
                       /\ \A i \in 1..Len(g) :
                             out.yth[i] # 0 /\ g[i] = {out.yth[i]}
                 /\ (\E i \in 1..Len(g) : g[i] = {}) => out.err # "none"

\* an octant call on a series of length 25 has returned more than one label
C12_Witness ==
    /\ CGDone
    /\ par.howtocg = "embed2octants"
    /\ Len(y) = 25
    /\ out.err = "none"
    /\ \E i, j \in 1..Len(out.yth) : out.yth[i] # out.yth[j]

(***************************************************************************)
(* BinaryStats(y, binaryMethod).  A statistic is a pair <<n, d>> standing  *)
(* for n / d; d = 0 stands for a non-finite float: <<0, 0>> is             *)
(* not-a-number and <<n, 0>> with n # 0 is infinite.  A standard deviation *)
(* is kept as its square, the sample variance.  The result's stats field   *)
(* is the returned dictionary: its domain is the set of keys present.      *)
(***************************************************************************)
NaN == <<0, 0>>

IsNaN(v) == v[1] = 0 /\ v[2] = 0

IsZero(v) == v[1] = 0 /\ v[2] # 0

\* p - r and p / n on floats: not-a-number propagates
FSub(p, r) == IF p[2] = 0 \/ r[2] = 0 THEN NaN ELSE RSub(p, r)

FDiv(p, n) == IF p[2] = 0 THEN p ELSE <<p[1], p[2] * n>>

NotOne(d) == d # 1

\* "diff_y = np.diff(np.where(padded ...)[0]); diff_y[diff_y != 1] - 1": the
\* lengths of the runs of symbol s, found as the gaps between the positions
\* of the other symbol in yBin padded with the other symbol at both ends
Stretch(yBin, s) ==
    LET padded == <<1 - s>> \o yBin \o <<1 - s>>
        idx    == Ascending({p \in 1..Len(padded) : padded[p] # s})
        gaps   == SelectSeq(Diff(idx), NotOne)
    IN  [j \in 1..Len(gaps) |-> gaps[j] - 1]

\* np.mean(x) and np.mean(x == v)
MeanOf(x) == <<SumSeq(x), Len(x)>>

MeanEq(x, v) == <<Cardinality({j \in 1..Len(x) : x[j] = v}), Len(x)>>

\* np.std(x, ddof=1) squared: (n * sum(x^2) - sum(x)^2) / (n * (n - 1))
VarOf(x) ==
    <<Len(x) * SumSeq([j \in 1..Len(x) |-> x[j] * x[j]]) - SumSeq(x) * SumSeq(x),
      Len(x) * (Len(x) - 1)>>

\* the number of 1s in yBin[lo..hi] (1-based, inclusive)
Ones(yBin, lo, hi) == Cardinality({p \in lo..hi : yBin[p] = 1})

\* lines 502-518: the entries of symbol s when it has no run
NoRunEntries(s) ==
    IF s = 0
    THEN [k \in {"longstretch0", "longstretch0norm", "meanstretch0",
                 "meanstretch0norm", "stdstretch0", "stdstretch0norm"} |->
             IF k \in {"stdstretch0", "stdstretch0norm"} THEN NaN ELSE <<0, 1>>]
    ELSE [k \in {"longstretch1", "longstretch1norm", "meanstretch1",
                 "meanstretch1norm", "stdstretch1"} |->
             IF k = "stdstretch1" THEN NaN ELSE <<0, 1>>]

\* lines 509-515 and 523-529: the entries of symbol s with runs st
RunEntries(s, st, N) ==
    LET long == SetMax(RangeOf(st))
        val(k) == IF k \in {"longstretch0", "longstretch1"} THEN <<long, 1>>
                  ELSE IF k \in {"longstretch0norm", "longstretch1norm"} THEN <<long, N>>
                  ELSE IF k \in {"meanstretch0", "meanstretch1"} THEN MeanOf(st)
                  ELSE IF k \in {"meanstretch0norm", "meanstretch1norm"} THEN FDiv(MeanOf(st), N)
                  ELSE IF k \in {"stdstretch0", "stdstretch1"} THEN VarOf(st)
                  ELSE FDiv(VarOf(st), N)
    IN  IF s = 0
        THEN [k \in {"longstretch0", "longstretch0norm", "meanstretch0",
                     "meanstretch0norm", "stdstretch0", "stdstretch0norm"} |-> val(k)]
        ELSE [k \in {"longstretch1", "longstretch1norm", "meanstretch1",
                     "meanstretch1norm", "stdstretch1", "stdstretch1norm"} |-> val(k)]

BinaryStats(yy, binaryMethod) ==
    LET yBin     == binarize(yy, binaryMethod)
        N        == Len(yBin)
        stretch0 == Stretch(yBin, 0)
        stretch1 == Stretch(yBin, 1)
        e0       == IF Len(stretch0) = 0 THEN NoRunEntries(0)
                    ELSE RunEntries(0, stretch0, N)
        e1       == IF Len(stretch1) = 0 THEN NoRunEntries(1)
                    ELSE RunEntries(1, stretch1, N)
        first    == [pupstat2  |-> <<Ones(yBin, (N \div 2) + 1, N), Ones(yBin, 1, N \div 2)>>,
                     pstretch1 |-> <<Len(stretch1), N>>]
        last     == [meanstretchdiff |->
                         FDiv(FSub(e1["meanstretch1"], e0["meanstretch0"]), N),
                     \* (std1 - std0) / N, kept as the two variances
                     stdstretchdiff  |-> <<e1["stdstretch1"], e0["stdstretch0"]>>,
                     diff21stretch1  |-> FSub(MeanEq(stretch1, 2), MeanEq(stretch1, 1)),
                     diff21stretch0  |-> FSub(MeanEq(stretch0, 2), MeanEq(stretch0, 1))]
    IN  IF N = 0 THEN [err |-> "ZeroDivision"]      \* len(stretch1) / N on line 500
        ELSE [err |-> "none", stats |-> first @@ e0 @@ e1 @@ last]

(***************************************************************************)
(* Specification SpecBS: one call of BinaryStats on a bounded input.       *)
(***************************************************************************)
InitBS ==
    /\ y \in Series
    /\ par \in [fn : {"BinaryStats"}, binaryMethod : {"diff", "mean"}]
    /\ pc = "call"
    /\ loc = [unused |-> TRUE]
    /\ out = [err |-> "none"]
    /\ NoSurprise

BinaryStatsCall ==
    /\ pc = "call"
    /\ par.fn = "BinaryStats"
    /\ out' = BinaryStats(y, par.binaryMethod)
    /\ pc' = "done"
    /\ UNCHANGED <<y, par, loc, surVars>>

NextBS == BinaryStatsCall

SpecBS == InitBS /\ [][NextBS]_vars

(***************************************************************************)
(* C13.                                                                    *)
(***************************************************************************)
BSReturned ==
    /\ par.fn = "BinaryStats"
    /\ pc = "done"
    /\ out.err = "none"

\* symbol s never occurs in the binarized sequence
Missing(s) == \A p \in 1..Len(binarize(y, par.binaryMethod)) :
                 binarize(y, par.binaryMethod)[p] # s

\* the keys of the run statistics of symbol s that are to be 0, and its
\* standard-deviation keys
ZeroKeys(s) ==
    IF s = 0
    THEN {"longstretch0", "longstretch0norm", "meanstretch0", "meanstretch0norm",
          "diff21stretch0"}
    ELSE {"pstretch1", "longstretch1", "longstretch1norm", "meanstretch1",
          "meanstretch1norm", "diff21stretch1"}

StdKeys(s) ==
    IF s = 0 THEN {"stdstretch0", "stdstretch0norm"}
    ELSE {"stdstretch1", "stdstretch1norm"}

\* C13: when symbol 0 or 1 never occurs in the binarized sequence, every
\* run statistic reported for it (run-count proportion, longest and mean
\* run raw and normalized, length-2 minus length-1 proportion) is 0 and
\* its standard deviations, raw and normalized, are present and
\* not-a-number.
C13_MissingSymbolZeros ==
    \A s \in {0, 1} :
        (BSReturned /\ Missing(s)) =>
            /\ \A k \in ZeroKeys(s) \cap DOMAIN out.stats : IsZero(out.stats[k])
            /\ \A k \in StdKeys(s) : k \in DOMAIN out.stats /\ IsNaN(out.stats[k])

(***************************************************************************)
(* C14.                                                                    *)
(***************************************************************************)
SurReturned ==
    /\ par.fn = "Surprise"
    /\ pc = "returned"
    /\ out.err = "none"

\* the resolved window length of the call in progress
SurMemory == ResolveMemory(par.memory, Len(y))

\* C14: with N the length of the symbol sequence and 1 <= memory < N, the
\* sampled indices are exactly min(numIters, N - memory) in number,
\* pairwise distinct, each in memory..N-1, and in ascending order.
C14_SampledCount ==
    (SurReturned /\ 1 <= SurMemory /\ SurMemory < Len(y)) =>
        /\ Len(out.rs) = Min2(par.numIters, Len(y) - SurMemory)
        /\ \A i, j \in 1..Len(out.rs) : i < j => out.rs[i] < out.rs[j]
        /\ \A i \in 1..Len(out.rs) : SurMemory <= out.rs[i] /\ out.rs[i] < Len(y)

(***************************************************************************)
(* Specification SpecEst: the probability estimate of Surprise's loop body *)
(* (lines 69-95) at one index t of a symbol sequence yth, for a window of  *)
(* memory symbols.  Every t in memory..N-1 can be a sampled index.         *)
(***************************************************************************)
MaxLenEst == 7      \* longest symbol sequence given to the estimate

\* two symbols suffice for a two-symbol context to recur
EstSymbols == {1, 2}

InitEst ==
    /\ y = <<>>
    /\ \E yth \in SeqsOf(EstSymbols, 2, MaxLenEst) :
          /\ loc = [yth |-> yth]
          /\ \E memory \in 1..(Len(yth) - 1), whatPrior \in {"dist", "T1", "T2"} :
                \E t \in memory..(Len(yth) - 1) :
                    par = [fn |-> "Estimate", whatPrior |-> whatPrior,
                           memory |-> memory, t |-> t]
    /\ pc = "call"
    /\ out = [err |-> "none"]
    /\ NoSurprise

EstimateCall ==
    /\ pc = "call"
    /\ par.fn = "Estimate"
    /\ out' = [err |-> "none", p |-> Estimate(loc.yth, par.whatPrior, par.memory, par.t)]
    /\ pc' = "done"
    /\ UNCHANGED <<y, par, loc, surVars>>

NextEst == EstimateCall

SpecEst == InitEst /\ [][NextEst]_vars

(***************************************************************************)
(* C15.                                                                    *)
(***************************************************************************)
\* the second-order estimate by direct counting inside the window
\* [t - memory, t): occurrences of the context (yth[t-2], yth[t-1]) that
\* have a successor in the window, and those followed by yth[t]
T2Direct(yth, memory, t) ==
    LET sym(s) == yth[s + 1]                        \* 0-based symbol[s]
        ctx == {s \in (t - memory)..(t - 3) :
                   sym(s) = sym(t - 2) /\ sym(s + 1) = sym(t - 1)}
    IN  IF ctx = {} THEN <<0, 1>>
        ELSE <<Cardinality({s \in ctx : sym(s + 2) = sym(t)}), Cardinality(ctx)>>

\* C15: with the 'T2' model the estimate at index t is the number of
\* window positions s with symbols (s, s+1, s+2) equal to those at
\* (t-2, t-1, t), divided by the number of positions s with symbols
\* (s, s+1) equal to those at (t-2, t-1) that have a successor s+2 in the
\* window, and 0 when there is no such position.
C15_T2IsDirectCount ==
    (par.fn = "Estimate" /\ pc = "done" /\ par.whatPrior = "T2") =>
        REq(out.p, T2Direct(loc.yth, par.memory, par.t))

(***************************************************************************)
(* C16.                                                                    *)
(***************************************************************************)
\* the symbol sequence MotifThree counts words of
MotifThreeSymbols ==
    IF par.how = "quantile" THEN CoarseGrain(y, "quantile", 3).yth
    ELSE CoarseGrain(Diff(y), "quantile", 3).yth

\* the number of start positions t in 0..N-L at which word w is read
DirectCount(yt, w) ==
    Cardinality({t \in 0..(Len(yt) - Len(w)) :
                    \A k \in 1..Len(w) : yt[t + k] = w[k]})

\* C16: on a ternary symbol sequence of length N >= 4 the refinement of
\* start-position sets agrees with a direct scan: for every word length L
\* in 1..4 and every word w, the reported probability is the number of
\* start positions t in 0..N-L with yt[t..t+L-1] = w, divided by N-L+1.
C16_RefinementIsDirectScan ==
    (MotifThreeDone /\ out.err = "none") =>
        LET yt == MotifThreeSymbols
        IN  Len(yt) >= 4 =>
                \A L \in 1..4 : \A w \in Words({1, 2, 3}, L) :
                    out.prob[L][w] = <<DirectCount(yt, w), Len(yt) - L + 1>>

\* a call on a series of length 6 has found a word of length 4 that does
\* not end in the symbol it starts with
C16_Witness ==
    /\ MotifThreeDone
    /\ out.err = "none"
    /\ Len(y) = 6
    /\ par.how = "quantile"
    /\ \E w \in Words({1, 2, 3}, 4) : w[1] # w[4] /\ out.prob[4][w][1] >= 1

(***************************************************************************)
(* C17.                                                                    *)
(***************************************************************************)
EmbedCallDone ==
    /\ CGDone
    /\ par.howtocg \in {"embed2quadrants", "embed2octants"}
    /\ par.numGroups >= 1

\* the label of the embedded point (m1, m2) under the call's method
LabelOf(m1, m2) ==
    IF par.howtocg = "embed2quadrants" THEN Quadrant(m1, m2) ELSE Octant(m1, m2)

\* C17: for both embedding methods, every series of length N >= 1 and
\* every lag tau >= 1, with tau' = min(tau, floor(N/25)) the returned
\* sequence has length N - tau' and its element i is the label of the
\* point (y[i], y[i+tau']).
C17_EmbeddingOfCappedLag ==
    EmbedCallDone =>
        LET tauP == Min2(par.numGroups, Len(y) \div 25)
        IN  /\ out.err = "none"
            /\ Len(out.yth) = Len(y) - tauP
            /\ \A i \in 1..(Len(y) - tauP) :
                  out.yth[i] = LabelOf(y[i], y[i + tauP])

=============================================================================
